---------------------------- MODULE Spec2Model ----------------------------
(***************************************************************************)
(* django_apscheduler: the durable job and execution tables (models.py),   *)
(* the execution reconciler DjangoJobExecution.atomic_update_or_create,    *)
(* the retention clean-up and the admin "run selected jobs" action         *)
(* (admin.py).                                                             *)
(*                                                                         *)
(* Time is a discrete clock, now.  A nullable column holds None (<<>>) or  *)
(* Some(v) (<<v>>).                                                        *)
(***************************************************************************)
EXTENDS Integers, FiniteSets, Sequences, TLC

(***************************************************************************)
(* Bounds of the model.                                                    *)
(***************************************************************************)
\* the clock of the reconciler runs from 0 to MaxTime
MaxTime == 2
\* execution ids handed out by the BigAutoField are 1..MaxId
MaxId == 2
\* run_selected_jobs is called at most MaxRuns times
MaxRuns == 2
\* settings.APSCHEDULER_RUN_NOW_TIMEOUT, in clock ticks
JobExecutionTimeout == 1

\* discover_tasks is called at most MaxDiscover times
MaxDiscover == 2
\* TimedTaskConfig ids handed out by the BigAutoField are 1..MaxConfigs
MaxConfigs == 2

\* the clock of a Run-Now scenario: room for MaxRuns runs that time out
RunNowHorizon == MaxRuns * (JobExecutionTimeout + 1)

JobIds == {"j1", "j2"}
Workers == {"w1", "w2"}
Locks == {"L1", "L2"}

None == <<>>
Some(v) == <<v>>

\* models.py:59-63 (the values are display strings; the names are kept)
SENT == "SENT"
SUCCESS == "SUCCESS"
MISSED == "MISSED"
MAX_INSTANCES == "MAX_INSTANCES"
ERROR == "ERROR"
Statuses == {SENT, SUCCESS, MISSED, MAX_INSTANCES, ERROR}

\* what an event can carry as exception / traceback text
ErrorDetails == {None, Some("e1")}
ErrorTraces == {None, Some("t1")}

\* DjangoJob columns next_run_time (None: paused) and job_state (the blob)
NextRunTimes == {None, Some(0)}
JobStates == {"s1"}

\* apps.get_app_configs(), in the order of INSTALLED_APPS
AppOrder == <<"a1", "a2">>
\* names that a tasks module can define, in the order of inspect.getmembers
SortedMemberNames == <<"helper", "task_a", "task_b">>
MemberNames == {SortedMemberNames[i] : i \in 1..Len(SortedMemberNames)}
\* what a name is in a module: not defined, a function without or with a
\* docstring, or a value that is not callable
MemberKinds == {"absent", "func", "func_doc", "value"}
\* the tasks modules a project can have: None where the app has none
ModuleChoices == {None} \cup {Some(m) : m \in [MemberNames -> MemberKinds]}
\* a project whose tasks modules define one function each, at most
FewModuleChoices ==
    {None} \cup
    {Some([n \in MemberNames |-> IF n = t THEN "func" ELSE "absent"]) :
        t \in {"task_a"}}
\* the fields of a TimedTaskConfig object that save reads
TaskInputs == {"task_a", "task_b"}
RemarkInputs == {"", "r1"}

VARIABLES
    now,            \* timezone.now()
    jobs,           \* table DjangoJob: id -> [next_run_time, job_state]
    executions,     \* table DjangoJobExecution: a set of rows
    nextId,         \* the next value of DjangoJobExecution.id
    lockOwner,      \* each lock passed to atomic_update_or_create: its holder
    wk,             \* each thread that delivers events: its call in progress
    lastDelete,     \* history: the latest operation that deleted executions
    adm,            \* the thread in DjangoJobAdmin.run_selected_jobs
    jobs_scheduled, \* DjangoJobAdmin._jobs_scheduled
    jobs_executed,  \* DjangoJobAdmin._jobs_executed
    messages,       \* what message_user has shown for the request
    sched,          \* the ephemeral scheduler of the latest run
    running,        \* jobs of the latest run's scheduler that have not ended
    stale,          \* jobs of earlier runs' schedulers that have not ended
    delivered,      \* ids of the latest run whose executed event was delivered
    outcome,        \* how the latest run ended
    runs,           \* how many times run_selected_jobs was called
    modules,        \* each installed app: the members of its tasks module
    task_list,      \* descovertasks.task_list
    discoveries,    \* how many times discover_tasks was called
    configs,        \* table TimedTaskConfig: pk -> row
    saved           \* history: the latest call of TimedTaskConfig.save

rvars == <<executions, nextId, lockOwner, wk, lastDelete>>
avars == <<adm, jobs_scheduled, jobs_executed, messages, sched, running,
           stale, delivered, outcome, runs>>
tvars == <<modules, task_list, discoveries, configs, saved>>
vars == <<now, jobs, rvars, avars, tvars>>

Free == "free"

NoResult == [kind |-> "none", id |-> 0]
Returned(id) == [kind |-> "returned", id |-> id]
Raised(what) == [kind |-> what, id |-> 0]

\* no row fetched
NoRow ==
    [id |-> 0, job_id |-> "none", run_time |-> 0, status |-> "none",
     duration |-> None, finished |-> None, exception |-> None, traceback |-> None]

\* a thread outside atomic_update_or_create
NotCalling ==
    [pc |-> "idle", lock |-> "none", job_id |-> "none", run_time |-> 0,
     status |-> "none", exception |-> None, traceback |-> None,
     finished |-> 0, duration |-> 0, rec |-> NoRow, result |-> NoResult]

(***************************************************************************)
(* Pure parts of the code.                                                 *)
(***************************************************************************)
\* Python truth of an optional string: None and "" are false
Truthy(x) == x # None /\ x # Some("")

\* .get(job_id=job_id, run_time=run_time): the rows that match
Matching(job_id, run_time) ==
    {r \in executions : r.job_id = job_id /\ r.run_time = run_time}

\* mutant: run_time__lt in place of run_time__lte
IsOldStrict(r, max_age) == r.run_time < now - max_age

\* run_time__lte=timezone.now() - timedelta(seconds=max_age)
IsOld(r, max_age) == r.run_time <= now - max_age

\* mutant: the delete takes the rows of every job
CascadeRowsOfAll(job_id) == executions

\* on_delete=models.CASCADE: the rows that go with a DjangoJob
CascadeRows(job_id) == {r \in executions : r.job_id = job_id}

\* mutant: the submission event is not singled out
IsDiscardedNever(status) == FALSE

\* `if status == DjangoJobExecution.SENT: return job_execution`
IsDiscarded(status) == status = SENT

\* mutant: the two `if` of lines 188 and 191 left out
UpdatedRowClearsErrors(r, status, finished, duration, exception, traceback) ==
    [r EXCEPT !.finished = Some(finished),
              !.duration = Some(duration),
              !.status = status,
              !.exception = exception,
              !.traceback = traceback]

\* mutant: a row that has a finished time keeps it
UpdatedRowFirstFinishWins(r, status, finished, duration, exception, traceback) ==
    [r EXCEPT !.finished = IF @ = None THEN Some(finished) ELSE @,
              !.duration = IF @ = None THEN Some(duration) ELSE @,
              !.status = status,
              !.exception = IF Truthy(exception) THEN exception ELSE @,
              !.traceback = IF Truthy(traceback) THEN traceback ELSE @]

\* the row as lines 184-194 leave it
UpdatedRow(r, status, finished, duration, exception, traceback) ==
    [r EXCEPT !.finished = Some(finished),
              !.duration = Some(duration),
              !.status = status,
              !.exception = IF Truthy(exception) THEN exception ELSE @,
              !.traceback = IF Truthy(traceback) THEN traceback ELSE @]

\* mutant: lines 198-201 left out, every new row gets the times
CreatedRowAlwaysTimed(id, job_id, run_time, status, finished, duration, exception, traceback) ==
    [id |-> id, job_id |-> job_id, run_time |-> run_time, status |-> status,
     duration |-> Some(duration), finished |-> Some(finished),
     exception |-> exception, traceback |-> traceback]

\* the row that lines 198-211 create
CreatedRow(id, job_id, run_time, status, finished, duration, exception, traceback) ==
    [id |-> id, job_id |-> job_id, run_time |-> run_time, status |-> status,
     duration |-> IF status = SENT THEN None ELSE Some(duration),
     finished |-> IF status = SENT THEN None ELSE Some(finished),
     exception |-> exception, traceback |-> traceback]

\* history: which operation deleted rows last, and whether it left any
Deleted(by, rows) ==
    IF rows = {} THEN lastDelete ELSE [by |-> by, partial |-> rows # executions]

\* mutant: the foreign key is not enforced
ForeignKeyNotChecked(job_id) == TRUE

\* the foreign key to DjangoJob
ForeignKeyOk(job_id) == job_id \in DOMAIN jobs

\* mutant: no unique constraint
UniqueNotChecked(job_id, run_time) == TRUE

\* UniqueConstraint(fields=["job_id", "run_time"])
UniqueOk(job_id, run_time) == Matching(job_id, run_time) = {}

\* mutant: the difference taken the other way round
DurationReversed(finished, run_time) == run_time - finished

\* duration = (finished - run_time).total_seconds()
Duration(finished, run_time) == finished - run_time

\* rows that a transaction in progress holds with select_for_update
RowLockedBy(w) == IF wk[w].pc = "save" THEN {wk[w].rec.id} ELSE {}
RowLocked(id) == \E w \in Workers : id \in RowLockedBy(w)

\* mutant: the lock is kept on the way out
ReleasedNever(w) == lockOwner

\* leaving `with lock:` gives the lock back
Released(w) == [lockOwner EXCEPT ![wk[w].lock] = Free]

InCall(w) == wk[w].pc \in {"get", "save", "create"}

\* the thread has left `with lock:` and is at `return`, with the value it
\* returns or the exception it raises; job_execution (rec) is the row as read
Done(w, result) == [wk EXCEPT ![w].pc = "done", ![w].result = result]

\* the admin thread outside run_selected_jobs
Outside ==
    [pc |-> "idle", queryset |-> {}, todo |-> {}, start_time |-> 0, used |-> 0,
     reported |-> {}, seen |-> {}]

NoMessages == [WARNING |-> {}, INFO |-> {}, ERROR |-> None]

\* self._django_jobstore.lookup_job(item.id)
LookupJob(id) == IF id \in DOMAIN jobs THEN Some(id) ELSE None

\* timezone.now() > start_time + timedelta(seconds=self._job_execution_timeout)
TimedOut(start_time) == now > start_time + JobExecutionTimeout

\* self._jobs_scheduled - self._jobs_executed
Pending == jobs_scheduled \ jobs_executed

\* self._jobs_executed.add(event.job_id)
HandleExecutionEvent(job_id) == jobs_executed \cup {job_id}

(***************************************************************************)
(* descovertasks.py: the task list.                                        *)
(***************************************************************************)
\* str.startswith
StartsWith(str, prefix) ==
    Len(str) >= Len(prefix) /\ SubSeq(str, 1, Len(prefix)) = prefix

\* callable(task_func)
IsCallable(kind) == kind \in {"func", "func_doc"}

\* Task(name=..., func=..., docs=...); the function object is the one that
\* the app's module defines
Task(name, func, docs) == [name |-> name, func |-> func, docs |-> docs]

\* task_func.__doc__ or task_name
TaskDocs(kind, name) == IF kind = "func_doc" THEN "doc" ELSE name

\* lines 19-27: what one app adds to the list
TasksOf(app) ==
    IF modules[app] = None
      THEN <<>>
      ELSE LET m == modules[app][1]
               IsTask(n) == IsCallable(m[n]) /\ StartsWith(n, "task_")
               names == SelectSeq(SortedMemberNames, IsTask)
           IN  [i \in 1..Len(names) |->
                  Task(names[i], <<app, names[i]>>, TaskDocs(m[names[i]], names[i]))]

\* lines 17-27: what one call of discover_tasks adds, app after app
RECURSIVE DiscoveredFrom(_)
DiscoveredFrom(i) ==
    IF i > Len(AppOrder) THEN <<>>
    ELSE TasksOf(AppOrder[i]) \o DiscoveredFrom(i + 1)

\* lines 30-35: the func of the first task of that name, or None
TaskFunc(name) ==
    LET found == {i \in 1..Len(task_list) : task_list[i].name = name} IN
    IF found = {} THEN None
    ELSE Some(task_list[CHOOSE i \in found : \A j \in found : i <= j].func)

\* no call of TimedTaskConfig.save yet
NoSave ==
    [outcome |-> "none", pk |-> 0, task |-> "", remark |-> "",
     status |-> FALSE, func |-> None, job |-> "none"]

\* models.py:257-258: the remark, or task_<pk>_<task> when it is empty
RemarkOf(pk, task, remark) ==
    IF remark # "" THEN remark
    ELSE "task_" \o (IF pk = None THEN "None" ELSE ToString(pk[1])) \o "_" \o task

(***************************************************************************)
(* Initial state: empty tables, nobody in a call.                          *)
(***************************************************************************)
InitBase ==
    /\ now = 0
    /\ jobs = <<>>
    /\ executions = {}
    /\ nextId = 1
    /\ lockOwner = [l \in Locks |-> Free]
    /\ wk = [w \in Workers |-> NotCalling]
    /\ lastDelete = [by |-> "none", partial |-> FALSE]
    /\ adm = Outside
    /\ jobs_scheduled = {}
    /\ jobs_executed = {}
    /\ messages = NoMessages
    /\ sched = "none"
    /\ running = {}
    /\ stale = {}
    /\ delivered = {}
    /\ outcome = "none"
    /\ runs = 0

\* descovertasks.py:13: task_list = []; no TimedTaskConfig row
InitTasks(choices) ==
    /\ modules \in [{AppOrder[i] : i \in 1..Len(AppOrder)} -> choices]
    /\ task_list = <<>>
    /\ discoveries = 0
    /\ configs = <<>>
    /\ saved = NoSave

Init == InitBase /\ InitTasks(ModuleChoices)

\* a project whose apps define task_a or nothing
InitFewTasks == InitBase /\ InitTasks(FewModuleChoices)

\* a project without tasks modules
InitNoTasks == InitBase /\ InitTasks({None})

(***************************************************************************)
(* The clock.                                                              *)
(***************************************************************************)
Tick(limit) ==
    /\ now < limit
    /\ now' = now + 1
    /\ UNCHANGED <<tvars, jobs, executions, nextId, lockOwner, wk, lastDelete, avars>>

(***************************************************************************)
(* The DjangoJob table.                                                    *)
(***************************************************************************)
AddJob(id, nrt, st) ==
    /\ id \notin DOMAIN jobs
    /\ jobs' = [j \in DOMAIN jobs \cup {id} |->
                  IF j = id THEN [next_run_time |-> nrt, job_state |-> st]
                  ELSE jobs[j]]
    /\ UNCHANGED <<tvars, now, executions, nextId, lockOwner, wk, lastDelete, avars>>

UpdateJob(id, nrt, st) ==
    /\ id \in DOMAIN jobs
    /\ jobs[id] # [next_run_time |-> nrt, job_state |-> st]
    /\ jobs' = [jobs EXCEPT ![id] = [next_run_time |-> nrt, job_state |-> st]]
    /\ UNCHANGED <<tvars, now, executions, nextId, lockOwner, wk, lastDelete, avars>>

\* deleting a DjangoJob row deletes its executions with it; the delete waits
\* for rows that a transaction holds locked
RemoveJob(id) ==
    /\ id \in DOMAIN jobs
    /\ \A r \in CascadeRows(id) : ~RowLocked(r.id)
    /\ jobs' = [j \in DOMAIN jobs \ {id} |-> jobs[j]]
    /\ executions' = executions \ CascadeRows(id)
    /\ lastDelete' = Deleted("cascade", CascadeRows(id))
    /\ UNCHANGED <<tvars, now, nextId, lockOwner, wk, avars>>

(***************************************************************************)
(* DjangoJobExecutionManager.delete_old_job_executions                     *)
(***************************************************************************)
DeleteOldJobExecutions(max_age) ==
    LET old == {r \in executions : IsOld(r, max_age)} IN
    /\ \A r \in old : ~RowLocked(r.id)
    /\ executions' = executions \ old
    /\ lastDelete' = Deleted("retention", old)
    /\ UNCHANGED <<tvars, now, jobs, nextId, lockOwner, wk, avars>>

(***************************************************************************)
(* DjangoJobExecution.atomic_update_or_create, one action per step.        *)
(***************************************************************************)
\* lines 159-165: enter `with lock`, read the clock.  The scheduler only
\* reports firings whose scheduled time has come: run_time <= now.
BeginCall(w, lock, job_id, run_time, status, exception, traceback) ==
    /\ wk[w].pc = "idle"
    /\ lockOwner[lock] = Free
    /\ run_time <= now
    /\ nextId + Cardinality({v \in Workers : InCall(v)}) <= MaxId
    /\ lockOwner' = [lockOwner EXCEPT ![lock] = w]
    /\ wk' = [wk EXCEPT ![w] =
                [pc |-> "get", lock |-> lock, job_id |-> job_id,
                 run_time |-> run_time, status |-> status,
                 exception |-> exception, traceback |-> traceback,
                 finished |-> now, duration |-> Duration(now, run_time),
                 rec |-> NoRow, result |-> NoResult]]
    /\ UNCHANGED <<tvars, now, jobs, executions, nextId, lastDelete, avars>>

\* lines 169-182: the row exists and the event is a submission: return the row
GetFoundDiscard(w) ==
    /\ wk[w].pc = "get"
    /\ \E r \in Matching(wk[w].job_id, wk[w].run_time) :
          /\ ~RowLocked(r.id)
          /\ IsDiscarded(wk[w].status)
          /\ wk' = [wk EXCEPT ![w].pc = "done", ![w].rec = r,
                               ![w].result = Returned(r.id)]
    /\ lockOwner' = Released(w)
    /\ UNCHANGED <<tvars, now, jobs, executions, nextId, lastDelete, avars>>

\* lines 169-173: the row exists and is now locked for the update
GetFoundUpdate(w) ==
    /\ wk[w].pc = "get"
    /\ \E r \in Matching(wk[w].job_id, wk[w].run_time) :
          /\ ~RowLocked(r.id)
          /\ ~IsDiscarded(wk[w].status)
          /\ wk' = [wk EXCEPT ![w].pc = "save", ![w].rec = r]
    /\ UNCHANGED <<tvars, now, jobs, executions, nextId, lockOwner, lastDelete, avars>>

\* lines 169-171, 196: DoesNotExist
GetNotFound(w) ==
    /\ wk[w].pc = "get"
    /\ Matching(wk[w].job_id, wk[w].run_time) = {}
    /\ wk' = [wk EXCEPT ![w].pc = "create"]
    /\ UNCHANGED <<tvars, now, jobs, executions, nextId, lockOwner, lastDelete, avars>>

\* lines 184-194, 213: write the row, commit, leave
Save(w) ==
    /\ wk[w].pc = "save"
    /\ \E r \in executions :
          /\ r.id = wk[w].rec.id
          /\ executions' = (executions \ {r}) \cup
                {UpdatedRow(r, wk[w].status, wk[w].finished, wk[w].duration,
                            wk[w].exception, wk[w].traceback)}
    /\ wk' = Done(w, Returned(wk[w].rec.id))
    /\ lockOwner' = Released(w)
    /\ UNCHANGED <<tvars, now, jobs, nextId, lastDelete, avars>>

\* lines 198-213: insert the row
CreateOk(w) ==
    /\ wk[w].pc = "create"
    /\ ForeignKeyOk(wk[w].job_id)
    /\ UniqueOk(wk[w].job_id, wk[w].run_time)
    /\ executions' = executions \cup
          {CreatedRow(nextId, wk[w].job_id, wk[w].run_time, wk[w].status,
                      wk[w].finished, wk[w].duration,
                      wk[w].exception, wk[w].traceback)}
    /\ nextId' = nextId + 1
    /\ wk' = Done(w, Returned(nextId))
    /\ lockOwner' = Released(w)
    /\ UNCHANGED <<tvars, now, jobs, lastDelete, avars>>

\* lines 203-211: the insert breaks the foreign key or the unique constraint
CreateIntegrityError(w) ==
    /\ wk[w].pc = "create"
    /\ ~(ForeignKeyOk(wk[w].job_id) /\ UniqueOk(wk[w].job_id, wk[w].run_time))
    /\ wk' = Done(w, Raised("IntegrityError"))
    /\ lockOwner' = Released(w)
    /\ UNCHANGED <<tvars, now, jobs, executions, nextId, lastDelete, avars>>

\* any database statement of the call fails (OperationalError): the
\* transaction is rolled back and the exception leaves `with lock`
StorageError(w) ==
    /\ InCall(w)
    /\ wk' = Done(w, Raised("OperationalError"))
    /\ lockOwner' = Released(w)
    /\ UNCHANGED <<tvars, now, jobs, executions, nextId, lastDelete, avars>>

\* the events the scheduler delivers: only an error event carries details
Events ==
    {<<st, None, None>> : st \in Statuses} \cup
    {<<ERROR, e, t>> : e \in ErrorDetails, t \in ErrorTraces}

\* `return job_execution`, or the exception reaching the caller
Return(w) ==
    /\ wk[w].pc = "done"
    /\ wk' = [wk EXCEPT ![w] = NotCalling]
    /\ UNCHANGED <<tvars, now, jobs, executions, nextId, lockOwner, lastDelete, avars>>

(***************************************************************************)
(* DjangoJobAdmin.run_selected_jobs, one action per step, and the jobs of  *)
(* the ephemeral schedulers.  The admin object lives as long as the        *)
(* process: its attributes and the listeners of its earlier schedulers     *)
(* outlive a run.                                                          *)
(***************************************************************************)
\* lines 68-78: a new scheduler, fresh sets, the start time, and the rows of
\* the queryset (rows of DjangoJob that exist when it is evaluated)
RunStart(sel) ==
    /\ adm.pc = "idle"
    /\ runs < MaxRuns
    /\ now + JobExecutionTimeout + 1 <= RunNowHorizon
    /\ sel \subseteq DOMAIN jobs
    /\ runs' = runs + 1
    /\ sched' = "running"
    /\ stale' = stale \cup running
    /\ running' = {}
    /\ delivered' = {}
    /\ jobs_scheduled' = {}
    /\ jobs_executed' = {}
    /\ messages' = NoMessages
    /\ outcome' = "none"
    /\ adm' = [pc |-> IF sel = {} THEN "while" ELSE "for", queryset |-> sel,
               todo |-> sel, start_time |-> now, used |-> 0, reported |-> {},
               seen |-> {}]
    /\ UNCHANGED <<tvars, now, jobs, rvars>>

\* the loop goes on with the next row, or ends
AfterItem(id) ==
    [adm EXCEPT !.todo = @ \ {id},
                !.pc = IF adm.todo = {id} THEN "while" ELSE "for"]

\* lines 79-84: no job of that id in the store: warn and go on
ForMissing(id) ==
    /\ adm.pc = "for"
    /\ id \in adm.todo
    /\ LookupJob(id) = None
    /\ messages' = [messages EXCEPT !.WARNING = @ \cup {id}]
    /\ adm' = AfterItem(id)
    /\ UNCHANGED <<tvars, now, jobs, rvars, jobs_scheduled, jobs_executed, sched,
                   running, stale, delivered, outcome, runs>>

\* mutant: the scheduler of the run is given the durable job store, which
\* drops a job that has no further run time
ForSubmitDurable(id) ==
    /\ adm.pc = "for"
    /\ id \in adm.todo
    /\ LookupJob(id) # None
    /\ jobs' = [j \in DOMAIN jobs \ {id} |-> jobs[j]]
    /\ running' = running \cup {id}
    /\ jobs_scheduled' = jobs_scheduled \cup {id}
    /\ adm' = AfterItem(id)
    /\ UNCHANGED <<tvars, now, rvars, jobs_executed, messages, sched, stale,
                   delivered, outcome, runs>>

\* lines 79-98: the job goes to the ephemeral scheduler, to run at once
ForSubmit(id) ==
    /\ adm.pc = "for"
    /\ id \in adm.todo
    /\ LookupJob(id) # None
    /\ running' = running \cup {id}
    /\ jobs_scheduled' = jobs_scheduled \cup {id}
    /\ adm' = AfterItem(id)
    /\ UNCHANGED <<tvars, now, jobs, rvars, jobs_executed, messages, sched, stale,
                   delivered, outcome, runs>>

\* line 100, the sets differ: into the loop body (seen is history: the
\* pending ids as this comparison found them)
WhileEnter ==
    /\ adm.pc = "while"
    /\ jobs_scheduled # jobs_executed
    /\ adm' = [adm EXCEPT !.pc = "check", !.seen = Pending]
    /\ UNCHANGED <<tvars, now, jobs, rvars, jobs_scheduled, jobs_executed, messages,
                   sched, running, stale, delivered, outcome, runs>>

\* line 100, the sets are equal; line 124: the iteration over the set begins
WhileExit ==
    /\ adm.pc = "while"
    /\ jobs_scheduled = jobs_executed
    /\ adm' = [adm EXCEPT !.pc = "report", !.used = Cardinality(jobs_executed),
                          !.reported = {}]
    /\ UNCHANGED <<tvars, now, jobs, rvars, jobs_scheduled, jobs_executed, messages,
                   sched, running, stale, delivered, outcome, runs>>

\* lines 102-104: the time is up
CheckTimedOut ==
    /\ adm.pc = "check"
    /\ TimedOut(adm.start_time)
    /\ adm' = [adm EXCEPT !.pc = "timeout"]
    /\ UNCHANGED <<tvars, now, jobs, rvars, jobs_scheduled, jobs_executed, messages,
                   sched, running, stale, delivered, outcome, runs>>

\* lines 102, 122: not yet: sleep and test again
CheckSleep ==
    /\ adm.pc = "check"
    /\ ~TimedOut(adm.start_time)
    /\ adm' = [adm EXCEPT !.pc = "while", !.seen = {}]
    /\ UNCHANGED <<tvars, now, jobs, rvars, jobs_scheduled, jobs_executed, messages,
                   sched, running, stale, delivered, outcome, runs>>

\* lines 105-120: the error message with the pending ids,
\* scheduler.shutdown(wait=False), return
TimeoutReport ==
    /\ adm.pc = "timeout"
    /\ messages' = [messages EXCEPT !.ERROR = Some(Pending)]
    /\ sched' = "shutdown_nowait"
    /\ outcome' = "timeout"
    /\ adm' = Outside
    /\ UNCHANGED <<tvars, now, jobs, rvars, jobs_scheduled, jobs_executed, running,
                   stale, delivered, runs>>

\* lines 124-125: one more id of the set is reported
ReportItem(id) ==
    /\ adm.pc = "report"
    /\ Cardinality(jobs_executed) = adm.used
    /\ id \in jobs_executed \ adm.reported
    /\ messages' = [messages EXCEPT !.INFO = @ \cup {id}]
    /\ adm' = [adm EXCEPT !.reported = @ \cup {id}]
    /\ UNCHANGED <<tvars, now, jobs, rvars, jobs_scheduled, jobs_executed, sched,
                   running, stale, delivered, outcome, runs>>

\* line 124: the set got a new member while it was iterated: the iterator
\* raises RuntimeError, which leaves run_selected_jobs
ReportSetChanged ==
    /\ adm.pc = "report"
    /\ Cardinality(jobs_executed) # adm.used
    /\ outcome' = "RuntimeError"
    /\ adm' = Outside
    /\ UNCHANGED <<tvars, now, jobs, rvars, jobs_scheduled, jobs_executed, messages,
                   sched, running, stale, delivered, runs>>

\* line 124: the iteration is over
ReportEnd ==
    /\ adm.pc = "report"
    /\ Cardinality(jobs_executed) = adm.used
    /\ jobs_executed = adm.reported
    /\ adm' = [adm EXCEPT !.pc = "shutdown"]
    /\ UNCHANGED <<tvars, now, jobs, rvars, jobs_scheduled, jobs_executed, messages,
                   sched, running, stale, delivered, outcome, runs>>

\* lines 127-128: scheduler.shutdown() returns when the jobs that its
\* executor is running have ended; return
Shutdown ==
    /\ adm.pc = "shutdown"
    /\ running = {}
    /\ sched' = "shutdown_wait"
    /\ outcome' = "completed"
    /\ adm' = Outside
    /\ UNCHANGED <<tvars, now, jobs, rvars, jobs_scheduled, jobs_executed, messages,
                   running, stale, delivered, runs>>

\* a job of the latest scheduler returns: EVENT_JOB_EXECUTED goes to the
\* listener, lines 130-131
JobExecuted(id) ==
    /\ id \in running
    /\ running' = running \ {id}
    /\ delivered' = delivered \cup {id}
    /\ jobs_executed' = HandleExecutionEvent(id)
    /\ UNCHANGED <<tvars, now, jobs, rvars, adm, jobs_scheduled, messages, sched,
                   stale, outcome, runs>>

\* a job of the latest scheduler raises, or is missed: an event that the
\* listener is not registered for (line 70)
JobFailed(id) ==
    /\ id \in running
    /\ running' = running \ {id}
    /\ UNCHANGED <<tvars, now, jobs, rvars, adm, jobs_scheduled, jobs_executed,
                   messages, sched, stale, delivered, outcome, runs>>

\* a job that an earlier run left behind returns: its scheduler still has
\* the listener, which is a method of the same admin object
StaleExecuted(id) ==
    /\ id \in stale
    /\ stale' = stale \ {id}
    /\ jobs_executed' = HandleExecutionEvent(id)
    /\ UNCHANGED <<tvars, now, jobs, rvars, adm, jobs_scheduled, messages, sched,
                   running, delivered, outcome, runs>>

\* the steps of the admin thread once it is in run_selected_jobs
AdminStep ==
    \/ \E id \in JobIds : ForMissing(id)
    \/ \E id \in JobIds : ForSubmit(id)
    \/ WhileEnter
    \/ WhileExit
    \/ CheckTimedOut
    \/ CheckSleep
    \/ TimeoutReport
    \/ \E id \in JobIds : ReportItem(id)
    \/ ReportSetChanged
    \/ ReportEnd
    \/ Shutdown

RunNow ==
    \/ \E sel \in SUBSET JobIds : RunStart(sel)
    \/ AdminStep
    \/ \E id \in JobIds : JobExecuted(id)
    \/ \E id \in JobIds : JobFailed(id)
    \/ \E id \in JobIds : StaleExecuted(id)

(***************************************************************************)
(* descovertasks.discover_tasks and TimedTaskConfig.save.                  *)
(***************************************************************************)
\* descovertasks.py:16-27, called at import (line 38) and by whoever calls
\* it again
DiscoverTasks ==
    /\ discoveries < MaxDiscover
    /\ discoveries' = discoveries + 1
    /\ task_list' = task_list \o DiscoveredFrom(1)
    /\ UNCHANGED <<now, jobs, rvars, avars, modules, configs, saved>>

\* what the scheduler part of save, models.py:260-273, comes to: the
\* arguments of add_job are evaluated (json.loads, CronTrigger.from_crontab
\* raise ValueError on text they cannot parse); add_job raises TypeError for
\* a func that is None and ConflictingIdError for an id that the job store
\* has; remove_job raises JobLookupError for an id that the job store has
\* not; either raises what the job store raises when its statement fails.
\* `except: pass` drops whatever remove_job raises.
SchedulerOutcome(r, func, status, fault) ==
    IF status
      THEN IF fault = "parse" THEN "ValueError"
           ELSE IF func = None THEN "TypeError"
           ELSE IF fault = "jobstore" THEN "OperationalError"
           ELSE IF r \in DOMAIN jobs THEN "ConflictingIdError"
           ELSE "added"
      ELSE IF r \in DOMAIN jobs /\ fault # "jobstore" THEN "removed"
           ELSE "not_removed"

\* models.py:256-276, for the object with these fields; pk is None for an
\* object that has no row yet.  models.py:231 imports descovertasks, whose
\* line 38 has called discover_tasks by then.
SaveConfig(pk, task, remark, status, fault) ==
    LET r == RemarkOf(pk, task, remark)
        func == TaskFunc(task)
        job == SchedulerOutcome(r, func, status, fault)
        id == IF pk = None THEN Cardinality(DOMAIN configs) + 1 ELSE pk[1]
        row == [task |-> task, remark |-> r, status |-> status]
        rows == IF job = "removed" THEN CascadeRows(r) ELSE {}
        written == job \in {"added", "removed", "not_removed"} /\ fault # "save"
    IN  /\ discoveries > 0
        /\ pk # None => pk[1] \in DOMAIN configs
        /\ id <= MaxConfigs
        /\ \A x \in rows : ~RowLocked(x.id)
        /\ jobs' = CASE job = "added" ->
                         [j \in DOMAIN jobs \cup {r} |->
                            IF j = r THEN [next_run_time |-> Some(0), job_state |-> "s1"]
                            ELSE jobs[j]]
                      [] job = "removed" -> [j \in DOMAIN jobs \ {r} |-> jobs[j]]
                      [] OTHER -> jobs
        /\ executions' = executions \ rows
        /\ lastDelete' = Deleted("cascade", rows)
        /\ configs' = IF written
                         THEN [k \in DOMAIN configs \cup {id} |->
                                 IF k = id THEN row ELSE configs[k]]
                         ELSE configs
        /\ saved' = [outcome |-> IF written THEN "saved"
                                  ELSE IF job \in {"added", "removed", "not_removed"}
                                         THEN "OperationalError" ELSE job,
                      pk |-> IF written THEN id ELSE 0,
                      task |-> task, remark |-> r, status |-> status,
                      func |-> IF status THEN func ELSE None,
                      job |-> IF status /\ job # "added" THEN "add_failed" ELSE job]
        /\ UNCHANGED <<now, nextId, lockOwner, wk, avars, modules, task_list,
                       discoveries>>

\* what can fail in a call of save: nothing, the parsing of args, kwargs or
\* cron, the statement of the job store, or the write of the row
Faults == {"none", "parse", "jobstore", "save"}

\* the calls of save for these tasks
SaveAny(tasks) ==
    \E pk \in {None} \cup {Some(k) : k \in 1..MaxConfigs},
       task \in tasks, remark \in RemarkInputs, status \in BOOLEAN,
       fault \in Faults :
        SaveConfig(pk, task, remark, status, fault)

Reconcile(W, L, J, RT, EV) ==
    \/ \E w \in W, lock \in L, job_id \in J, run_time \in RT, ev \in EV :
          BeginCall(w, lock, job_id, run_time, ev[1], ev[2], ev[3])
    \/ \E w \in W : GetFoundDiscard(w)
    \/ \E w \in W : GetFoundUpdate(w)
    \/ \E w \in W : GetNotFound(w)
    \/ \E w \in W : Save(w)
    \/ \E w \in W : CreateOk(w)
    \/ \E w \in W : CreateIntegrityError(w)
    \/ \E w \in W : StorageError(w)
    \/ \E w \in W : Return(w)

JobStore(J, NRT, ST) ==
    \/ \E id \in J, nrt \in NRT, st \in ST : AddJob(id, nrt, st)
    \/ \E id \in J, nrt \in NRT, st \in ST : UpdateJob(id, nrt, st)
    \/ \E id \in J : RemoveJob(id)

\* the ages that the retention cleanup is called with
MaxAges == 0..(MaxTime + 1)

Retention == \E max_age \in MaxAges : DeleteOldJobExecutions(max_age)

Next ==
    \/ Tick(MaxTime)
    \/ JobStore(JobIds, NextRunTimes, JobStates)
    \/ Retention
    \/ Reconcile(Workers, Locks, JobIds, 0..MaxTime, Events)
    \/ RunNow
    \/ DiscoverTasks
    \/ SaveAny(TaskInputs)

Spec == Init /\ [][Next]_vars

\* one event thread and the events of one job: what each event does to a row
NextEvents ==
    \/ Tick(MaxTime)
    \/ \E st \in JobStates : AddJob("j1", None, st)
    \/ Reconcile({"w1"}, {"L1"}, {"j1"}, 0..1, Events)

SpecEvents == InitNoTasks /\ [][NextEvents]_vars

\* one event thread, both jobs, the job table and the retention clean-up
NextStore ==
    \/ Tick(MaxTime)
    \/ \E id \in JobIds : AddJob(id, None, "s1")
    \/ \E nrt \in NextRunTimes : UpdateJob("j1", nrt, "s1")
    \/ \E id \in JobIds : RemoveJob(id)
    \/ Retention
    \/ Reconcile({"w1"}, {"L1"}, JobIds, 0..1, {<<SENT, None, None>>, <<SUCCESS, None, None>>})

SpecStore == InitNoTasks /\ [][NextStore]_vars

\* two event threads, each call with either lock, on the firings of one job
NextConcurrent ==
    \/ Tick(MaxTime)
    \/ AddJob("j1", None, "s1")
    \/ RemoveJob("j1")
    \/ Retention
    \/ Reconcile(Workers, Locks, {"j1"}, {0},
                 {<<SENT, None, None>>, <<SUCCESS, None, None>>})

SpecConcurrent == InitNoTasks /\ [][NextConcurrent]_vars

\* the admin action, the jobs of its schedulers, and the job table
NextRunNow ==
    \/ Tick(RunNowHorizon)
    \/ \E id \in JobIds : AddJob(id, None, "s1")
    \/ \E id \in JobIds : RemoveJob(id)
    \/ RunNow

SpecRunNow == InitNoTasks /\ [][NextRunNow]_vars

\* the task list of every project of two apps
NextTasks ==
    \/ DiscoverTasks
    \/ \E task \in TaskInputs : SaveConfig(None, task, "r1", TRUE, "none")

SpecTasks == Init /\ [][NextTasks]_vars

\* the configurations of a project with few tasks, and their jobs
NextConfig ==
    \/ DiscoverTasks
    \/ SaveAny({"task_a"})
    \/ \E id \in {"r1"} : RemoveJob(id)

SpecConfig == InitFewTasks /\ [][NextConfig]_vars

\* the clock advances and the admin thread is scheduled; nothing makes a
\* job end
LiveRunNow == SpecRunNow /\ WF_vars(Tick(RunNowHorizon)) /\ WF_vars(AdminStep)

(***************************************************************************)
(* Properties.                                                             *)
(***************************************************************************)
IsTerminal(status) == status \in Statuses \ {SENT}

\* the step in which w's call ends by returning a row
Returns(w, pc) ==
    /\ wk[w].pc = pc
    /\ wk'[w].pc = "done"
    /\ wk'[w].result.kind = "returned"

\* C1: a Submitted event for a firing whose row has a terminal status leaves
\* the table as it is (status, duration and finished of the row with it) and
\* returns that row; and no step takes a row from a terminal status back to
\* Submitted.
C1_SubmittedAfterTerminalIsDiscarded ==
    [][/\ \A w \in Workers :
            \A r \in Matching(wk[w].job_id, wk[w].run_time) :
                (Returns(w, "get") /\ wk[w].status = SENT /\ IsTerminal(r.status))
                => /\ executions' = executions
                   /\ wk'[w].result = Returned(r.id)
                   /\ wk'[w].rec = r
       /\ \A r \in executions, q \in executions' :
            (q.id = r.id /\ IsTerminal(r.status)) => IsTerminal(q.status)
      ]_vars

\* C1 happens: a call with a Submitted event has returned a row whose status
\* is terminal (scenario B).
C1_Witness ==
    \E w \in Workers, r \in executions :
        /\ wk[w].pc = "done"
        /\ wk[w].status = SENT
        /\ wk[w].result = Returned(r.id)
        /\ wk[w].rec = r
        /\ IsTerminal(r.status)
        /\ r.finished # None

\* C2: the table never holds two rows for one (job_id, run_time).
C2_OneRowPerFiring ==
    \A r \in executions, q \in executions :
        (r.job_id = q.job_id /\ r.run_time = q.run_time) => r = q

\* C2 happens: two calls with different locks have both found no row for the
\* same firing; one has inserted it, the other is about to insert.
C2_Witness ==
    \E w \in Workers, v \in Workers :
        /\ w # v
        /\ wk[w].pc = "create"
        /\ wk[v].pc = "done"
        /\ wk[v].rec = NoRow
        /\ wk[v].result.kind = "returned"
        /\ wk[w].lock # wk[v].lock
        /\ wk[w].job_id = wk[v].job_id
        /\ wk[w].run_time = wk[v].run_time
        /\ Matching(wk[w].job_id, wk[w].run_time) # {}

\* the row r is as a delivery of the event of call c leaves a row, for the
\* time that r records
AppliedOnce(r, c) ==
    /\ r.finished # None
    /\ r.duration # None
    /\ r = UpdatedRow(r, c.status, r.finished[1], r.duration[1], c.exception, c.traceback)

\* w is about to write an event to a row that an earlier delivery of the same
\* event has left, and read the clock later than that delivery
SecondDelivery(w) ==
    /\ AppliedOnce(wk[w].rec, wk[w])
    /\ wk[w].rec.finished[1] < wk[w].finished

\* C3 as claimed: the second delivery of a terminal event leaves the row in
\* the state the first delivery left (status, duration, finished, error
\* fields).
C3_SecondDeliveryChangesNothing ==
    [][\A w \in Workers :
          (Returns(w, "save") /\ SecondDelivery(w)) => executions' = executions
      ]_vars

\* C3 as amended: the second delivery of a terminal event leaves status and
\* error fields as the first left them, and sets finished and duration from
\* its own reading of the clock.
C3_SecondDeliveryKeepsStatusAndErrors ==
    [][\A w \in Workers :
          (Returns(w, "save") /\ SecondDelivery(w))
          => executions' = (executions \ {wk[w].rec}) \cup
                {[wk[w].rec EXCEPT
                    !.finished = Some(wk[w].finished),
                    !.duration = Some(wk[w].finished - wk[w].rec.run_time)]}
      ]_vars

\* C3 happens: the second delivery of an event has been written, later than
\* the first.
C3_Witness ==
    \E w \in Workers, q \in executions :
        /\ wk[w].pc = "done"
        /\ wk[w].result = Returned(q.id)
        /\ wk[w].rec.id = q.id
        /\ IsTerminal(wk[w].status)
        /\ SecondDelivery(w)
        /\ q.status = wk[w].rec.status
        /\ q.finished = Some(wk[w].finished)
        /\ q.finished # wk[w].rec.finished

RunEnds == adm.pc # "idle" /\ adm'.pc = "idle"

\* C5 as claimed: a requested id with no job in the store gets a warning and
\* is not submitted; a requested id with a job in the store is submitted;
\* and when the run ends every submitted id whose executed event had come
\* when the run last compared the sets is reported as executed.
C5_PartialSuccess ==
    [][/\ \A id \in JobIds :
             (adm.pc = "for" /\ id \in adm.todo /\ id \notin adm'.todo)
             => IF id \in DOMAIN jobs
                   THEN /\ id \in jobs_scheduled'
                        /\ id \notin messages'.WARNING
                   ELSE /\ id \in messages'.WARNING
                        /\ id \notin jobs_scheduled'
                        /\ adm'.pc \in {"for", "while"}
       /\ RunEnds => ((jobs_scheduled \cap delivered) \ adm.seen) \subseteq messages'.INFO
      ]_vars

\* C6 as claimed: a run that ends by timeout reports an error that lists the
\* pending ids, submitted minus executed, which is a non-empty set, shuts
\* the scheduler down without waiting, and reports no success.
C6_TimeoutListsPending ==
    [][(RunEnds /\ outcome' = "timeout")
       => /\ messages'.ERROR = Some(jobs_scheduled \ jobs_executed)
          /\ messages'.ERROR # Some({})
          /\ sched' = "shutdown_nowait"
          /\ messages'.INFO = {}
      ]_vars

\* C7 as claimed: under a fair clock and fair polling every run of
\* run_selected_jobs returns.
C7_RunNowReturns == (adm.pc # "idle") ~> (adm.pc = "idle")

\* C8 as claimed: a run that returned without timeout has reported success for
\* exactly the ids it submitted, none of them warned about as missing, each
\* with an executed event of this run's scheduler, and has shut the
\* scheduler down waiting.
C8_CompletionReportsSubmitted ==
    (adm.pc = "idle" /\ outcome = "completed")
    => /\ messages.INFO = jobs_scheduled
       /\ messages.INFO \cap messages.WARNING = {}
       /\ jobs_scheduled \subseteq delivered
       /\ sched = "shutdown_wait"

\* the step is a call of delete_old_job_executions(max_age)
CleanupStep(max_age) ==
    /\ UNCHANGED <<now, jobs, nextId, wk>>
    /\ DeleteOldJobExecutions(max_age)

Gone(r) == \A q \in executions' : q.id # r.id

\* C10 as claimed: a row leaves the store only in a step of the retention
\* cleanup.
C10_DeletedOnlyByRetention ==
    [][\A r \in executions :
          Gone(r) => \E max_age \in MaxAges : CleanupStep(max_age)
      ]_vars

\* C10 as amended: a row leaves the store only in a step of the retention
\* cleanup that finds it old, or in the step that removes the job it
\* belongs to.
C10_DeletedByRetentionOrWithItsJob ==
    [][\A r \in executions :
          Gone(r)
          => \/ \E max_age \in MaxAges :
                   /\ CleanupStep(max_age)
                   /\ r.run_time <= now - max_age
             \/ /\ r.job_id \in DOMAIN jobs
                /\ r.job_id \notin DOMAIN jobs'
      ]_vars

\* C10 happens: the removal of a job has taken its rows with it and left the
\* rows of another job.
C10_Witness ==
    /\ lastDelete.by = "cascade"
    /\ lastDelete.partial
    /\ \E r \in executions : r.job_id \in DOMAIN jobs

\* C11: every row of DjangoJobExecution names a job that is in DjangoJob;
\* the step that removes a job leaves no row of that job; and a call for a
\* job that is not in DjangoJob when the row is to be inserted raises and
\* leaves the table as it is.
C11_ReferentialIntegrity ==
    /\ [](\A r \in executions : r.job_id \in DOMAIN jobs)
    /\ [][/\ \A id \in DOMAIN jobs :
                id \notin DOMAIN jobs' => \A r \in executions' : r.job_id # id
           /\ \A w \in Workers :
                (/\ wk[w].pc = "create"
                 /\ wk[w].job_id \notin DOMAIN jobs
                 /\ wk'[w].pc = "done")
                => /\ executions' = executions
                   /\ wk'[w].result.kind # "returned"
          ]_vars

\* C11 happens: the removal of a job has taken rows with it, and an event
\* for a job that is not in the table has raised IntegrityError.
C11_Witness ==
    /\ lastDelete.by = "cascade"
    /\ \E w \in Workers :
          /\ wk[w].pc = "done"
          /\ wk[w].result = Raised("IntegrityError")
          /\ wk[w].job_id \notin DOMAIN jobs
          /\ Matching(wk[w].job_id, wk[w].run_time) = {}

\* C12: of the calls given one lock at most one is inside `with lock:`; the
\* thread inside holds the lock; and a lock is held only by a thread that
\* is inside, so a call that has left, by return, by the early return of a
\* discarded submission or by an exception, has given the lock back and the
\* next caller can take it.
C12_LockHeldOnlyInsideCall ==
    /\ \A l \in Locks :
          Cardinality({w \in Workers : InCall(w) /\ wk[w].lock = l}) <= 1
    /\ \A w \in Workers : InCall(w) => lockOwner[wk[w].lock] = w
    /\ \A l \in Locks :
          lockOwner[l] # Free
          => InCall(lockOwner[l]) /\ wk[lockOwner[l]].lock = l

\* C12 happens: a call has left `with lock:` by a storage error and another
\* thread is inside with the same lock.
C12_Witness ==
    \E w, v \in Workers :
        /\ w # v
        /\ wk[w].pc = "done"
        /\ wk[w].result = Raised("OperationalError")
        /\ InCall(v)
        /\ wk[v].lock = wk[w].lock
        /\ lockOwner[wk[v].lock] = v

\* C13 as claimed: task_list never holds two tasks of one name.
C13_TaskNamesUnique ==
    \A i, j \in 1..Len(task_list) :
        task_list[i].name = task_list[j].name => i = j

\* the task list has a task of that name
Registered(name) == \E i \in 1..Len(task_list) : task_list[i].name = name

\* C14 as claimed: save of an enabled config whose task is in the list gets
\* a func of that name from task_func; for a task that is not in the list
\* the lookup fails with TaskNotFoundError and no func that is None reaches
\* scheduler.add_job.
C14_ResolveOrTaskNotFound ==
    [][(saved' # saved /\ saved'.status)
       => IF Registered(saved'.task)
            THEN \E i \in 1..Len(task_list) :
                    /\ task_list[i].name = saved'.task
                    /\ saved'.func = Some(task_list[i].func)
            ELSE /\ saved'.outcome = "TaskNotFoundError"
                 /\ saved'.job # "add_failed"
      ]_vars

\* C15: a row has status SENT exactly when its duration and finished are
\* both null; the row that a call creates has them null for a SENT event
\* and, for any other event, finished = the time the call read and
\* duration = that time - run_time.
C15_SubmittedIffNoDuration ==
    /\ [](\A r \in executions :
            /\ r.status = SENT <=> (r.duration = None /\ r.finished = None)
            /\ r.duration = None <=> r.finished = None)
    /\ [][\A w \in Workers :
             Returns(w, "create")
             => \E q \in executions' \ executions :
                   /\ q.id = wk'[w].result.id
                   /\ q.status = wk[w].status
                   /\ IF wk[w].status = SENT
                        THEN q.duration = None /\ q.finished = None
                        ELSE /\ q.finished = Some(wk[w].finished)
                             /\ q.duration = Some(wk[w].finished - wk[w].run_time)
          ]_vars

\* C15 happens: a terminal event has created a row, with its times, and
\* the table holds a submitted row too.
C15_Witness ==
    \E w \in Workers, q, p \in executions :
        /\ wk[w].pc = "done"
        /\ wk[w].rec = NoRow
        /\ wk[w].result = Returned(q.id)
        /\ IsTerminal(wk[w].status)
        /\ q.status = wk[w].status
        /\ q.finished = Some(wk[w].finished)
        /\ p.status = SENT
        /\ p.finished = None

\* C16: no step of run_selected_jobs, of its schedulers' jobs or of its
\* listener changes the DjangoJob table: the jobs that the run submits are
\* in the scheduler of the run only.
C16_RunNowLeavesJobTable ==
    [][avars' # avars
       => /\ jobs' = jobs
          /\ \A id \in JobIds :
                (id \in jobs_scheduled' \ jobs_scheduled)
                => id \in running' /\ id \in DOMAIN jobs'
      ]_vars

\* C16 happens: a second run has ended by completion after a first, with
\* jobs submitted, and their rows are in the table.
C16_Witness ==
    /\ adm.pc = "idle"
    /\ runs = 2
    /\ outcome = "completed"
    /\ jobs_scheduled # {}
    /\ \A id \in jobs_scheduled : id \in DOMAIN jobs /\ jobs[id].job_state = "s1"

\* C17 as claimed: the executed event of a job that an earlier run left
\* behind changes neither of the sets that the present run compares.
C17_RunsAreIsolated ==
    [][(stale' # stale /\ stale' \subseteq stale)
       => /\ jobs_executed' = jobs_executed
          /\ jobs_scheduled' = jobs_scheduled
      ]_vars

\* the jobs of the latest run that have ended without an executed event
Failed == jobs_scheduled \ (running \cup delivered)

\* C18 as claimed: a submitted job that ended with an error, missed or
\* max-instances event is not in the executed set, and the run that
\* submitted it ends by timeout with its id among the pending ids.
C18_OnlyExecutedCounts ==
    /\ [](Failed \cap jobs_executed = {})
    /\ [][(RunEnds /\ Failed # {})
           => /\ outcome' = "timeout"
              /\ messages'.ERROR # None
              /\ Failed \subseteq messages'.ERROR[1]
          ]_vars

\* C19: a row that has an exception or a traceback keeps having one; an
\* event without an exception (a traceback) that is written over a row
\* leaves the row's exception (traceback) as it was, and still sets the
\* row's status, duration and finished from the event.
C19_ErrorFieldsAreKept ==
    [][/\ \A r \in executions, q \in executions' :
             q.id = r.id
             => /\ Truthy(r.exception) => Truthy(q.exception)
                /\ Truthy(r.traceback) => Truthy(q.traceback)
       /\ \A w \in Workers :
             Returns(w, "save")
             => \E q \in executions' :
                   /\ q.id = wk[w].rec.id
                   /\ q \notin executions \/ q = wk[w].rec
                   /\ ~Truthy(wk[w].exception)
                         => q.exception = wk[w].rec.exception
                   /\ ~Truthy(wk[w].traceback)
                         => q.traceback = wk[w].rec.traceback
                   /\ q.status = wk[w].status
                   /\ q.duration = Some(wk[w].duration)
                   /\ q.finished = Some(wk[w].finished)
      ]_vars

\* C19 happens: an executed event without error fields has been written
\* over a row that an error event had left with an exception and a traceback.
C19_Witness ==
    \E w \in Workers, q \in executions :
        /\ wk[w].pc = "done"
        /\ wk[w].result = Returned(q.id)
        /\ wk[w].rec.id = q.id
        /\ wk[w].rec.status = ERROR
        /\ Truthy(wk[w].rec.exception)
        /\ Truthy(wk[w].rec.traceback)
        /\ wk[w].status = SUCCESS
        /\ wk[w].exception = None
        /\ wk[w].traceback = None
        /\ q.status = SUCCESS
        /\ q.exception = wk[w].rec.exception
        /\ q.traceback = wk[w].rec.traceback

\* C20 as claimed: after a save that succeeds, the job table has a job with
\* the config's remark as id exactly if the saved status is enabled; a save
\* whose add_job fails raises and leaves the config rows as they were.
C20_ConfigAndSchedulerInStep ==
    [][saved' # saved
       => /\ saved'.outcome = "saved"
                => (saved'.remark \in DOMAIN jobs' <=> saved'.status)
          /\ saved'.job = "add_failed"
                => /\ saved'.outcome # "saved"
                   /\ configs' = configs
                   /\ jobs' = jobs
      ]_vars

=============================================================================
